---- MODULE Spec2Model ----
(***************************************************************************)
(* LendWid ledger server (src/server.py): the four transactions on a user  *)
(* document (txn_add_new_client, txn_add_entry, batch_mark_today,          *)
(* undo_last_batch), the documents they are run against, and the store's   *)
(* read / transform / compare-and-write loop they are submitted to.        *)
(*                                                                         *)
(* A JSON object (Python dict) is a function whose DOMAIN is its key set,  *)
(* so that "k in d", d.get(k, default) and del d[k] are modelled as the    *)
(* code performs them.  Python's None is the value None below.             *)
(***************************************************************************)
EXTENDS Integers, Sequences, FiniteSets, TLC

VARIABLES db, tick, last, preSweep, steps, pc, job, snap, res, log, doc0

vars == <<db, tick, last, preSweep, steps, pc, job, snap, res, log, doc0>>

-----------------------------------------------------------------------------
(* Bounds of the model *)

MaxSteps == 3
NumProcs == 2

(* Program constants *)

MAX_WEEKS == 20
WEEKLY_AMOUNT == 600

-----------------------------------------------------------------------------
(* Python values *)

None == [none |-> TRUE]
EmptyDict == [k \in {} |-> 0]

Put(d, k, v) == [x \in (DOMAIN d) \cup {k} |-> IF x = k THEN v ELSE d[x]]
Del(d, k) == [x \in (DOMAIN d) \ {k} |-> d[x]]
Get(d, k, default) == IF k \in DOMAIN d THEN d[k] ELSE default
Falsy(v) == v = None \/ v = EmptyDict
OrEmpty(v) == IF Falsy(v) THEN EmptyDict ELSE v

SetMax(S) == CHOOSE m \in S : \A n \in S : n <= m
ClampAtOne(a) == IF a < 1 THEN 1 ELSE a
Max0(a) == IF a < 0 THEN 0 ELSE a

Lower(s) ==
    CASE s = "Active" -> "active"
      [] s = "Closed" -> "closed"
      [] s = "Paid" -> "paid"
      [] s = "Pending" -> "pending"
      [] OTHER -> s

-----------------------------------------------------------------------------
(* Keys: f"P{i}", f"{client_id}Stat", f"week{n}" and their parsing *)

PKey(i) == "P" \o ToString(i)
StatKey(client_id) == client_id \o "Stat"
WeekKeyTable == [n \in 1..(MAX_WEEKS + 1) |-> "week" \o ToString(n)]
WeekKey(n) == WeekKeyTable[n]
WeekNoTable ==
    [k \in {WeekKeyTable[n] : n \in 1..(MAX_WEEKS + 1)} |->
        CHOOSE n \in 1..(MAX_WEEKS + 1) : WeekKeyTable[n] = k]
WeekNo(k) == WeekNoTable[k]

(* Strings that are compared by order (dates) are sequences of character   *)
(* codes: '0'..'9' = 48..57, '-' = 45.                                     *)
LexLess(s, t) ==
    \E i \in 1..Len(t) :
        /\ \A j \in 1..(i - 1) : j <= Len(s) /\ s[j] = t[j]
        /\ \/ i > Len(s)
           \/ i <= Len(s) /\ s[i] < t[i]
LexMin(S) == CHOOSE m \in S : \A d \in S : d = m \/ LexLess(m, d)
LexMax(S) == CHOOSE m \in S : \A d \in S : d = m \/ LexLess(d, m)

(* The clock: the days on which the model lets the clock be read.  Day 0   *)
(* is Monday 2024-01-01; tick t reads day 7*t, the t-th Monday after it    *)
(* (a client collected on another weekday is never due on these days).     *)
DayOfTick(t) == 7 * t
weekday_map == <<"MON", "TUE", "WED", "THU", "FRI", "SAT", "SUN">>
Weekday(d) == weekday_map[(d % 7) + 1]
DateStr(d) == <<50, 48, 50, 52, 45, 48, 49, 45, 48 + ((d + 1) \div 10), 48 + ((d + 1) % 10)>>
OldDate == <<50, 48, 50, 51, 45, 49, 50, 45, 50, 53>>
Today(t) == [date |-> DateStr(DayOfTick(t)), weekday |-> Weekday(DayOfTick(t))]

-----------------------------------------------------------------------------
(* Helpers of the server *)

ZeroStats == [TotalLoans |-> 0, ActiveLoans |-> 0, ClosedLoans |-> 0]

ensure_user_structure(curr) ==
    IF curr = None
    THEN [AllStats |-> ZeroStats, ClientData |-> EmptyDict, _lastBatch |-> None]
    ELSE LET c1 == IF "AllStats" \in DOMAIN curr THEN curr ELSE Put(curr, "AllStats", ZeroStats)
             c2 == IF "ClientData" \in DOMAIN c1 THEN c1 ELSE Put(c1, "ClientData", EmptyDict)
         IN  IF "_lastBatch" \in DOMAIN c2 THEN c2 ELSE Put(c2, "_lastBatch", None)

(* find_today_entry returns the first key, in the dict's iteration order,  *)
(* whose entry is dated today.  The order of the keys of a document read   *)
(* from the store is not fixed by the server, so every matching key is a   *)
(* possible result; NoKey is Python's None.                                *)
NoKey == ""
TodayKeys(collection_data, today_date) ==
    {k \in DOMAIN OrEmpty(collection_data) : Get(collection_data[k], "date", None) = today_date}
find_today_entry(collection_data, today_date) ==
    IF TodayKeys(collection_data, today_date) = {} THEN {NoKey}
    ELSE TodayKeys(collection_data, today_date)

AlwaysFirstClientId(client_data) == PKey(1)
NextClientIdFromZero(client_data) ==
    PKey(CHOOSE i \in 0..(Cardinality(DOMAIN client_data) + 1) :
            /\ PKey(i) \notin DOMAIN client_data
            /\ \A j \in 0..(i - 1) : PKey(j) \in DOMAIN client_data)
get_next_client_id(client_data) ==
    PKey(CHOOSE i \in 1..(Cardinality(DOMAIN client_data) + 1) :
            /\ PKey(i) \notin DOMAIN client_data
            /\ \A j \in 1..(i - 1) : PKey(j) \in DOMAIN client_data)

(* GET /nextClientId: the preview of the next id, max(int(key[1:])) + 1    *)
(* over the keys of ClientData, "P1" when there is no document or no       *)
(* client.  PNo parses the number of a key "P<n>".                         *)
MaxClientNo == MaxSteps + 2
PNoKeys == {PKey(n) : n \in 0..MaxClientNo}
PNo(key) == CHOOSE n \in 0..MaxClientNo : PKey(n) = key
get_next_client_id_route(data) ==
    IF Falsy(data) \/ "ClientData" \notin DOMAIN data THEN PKey(1)
    ELSE IF Falsy(data["ClientData"]) THEN PKey(1)
    ELSE LET client_data == data["ClientData"]
             ns == {PNo(key) : key \in DOMAIN client_data \cap PNoKeys}
         IN  PKey((IF ns = {} THEN 0 ELSE SetMax(ns \cup {0})) + 1)

(* next_week = (max(weeks) if weeks else 0) + 1 over the parsed week keys *)
NextWeek(coll) ==
    LET weeks == {WeekNo(k) : k \in DOMAIN coll}
    IN  (IF weeks = {} THEN 0 ELSE SetMax(weeks)) + 1

(* if next_week > 20 *)
ScheduleExhaustedOffByOne(next_week) == next_week > MAX_WEEKS + 1
ScheduleExhausted(next_week) == next_week > MAX_WEEKS

(* A transform returns a document, or raises: err is the message. *)
Ok(doc) == [err |-> "", val |-> doc]
Raise(msg) == [err |-> msg, val |-> None]

(* stat["Status"] = "Closed" and the two counters moved, when weeks_paid >= 20 *)
CloseStatAbove(stat) ==
    IF stat["WeeksPaid"] > MAX_WEEKS THEN Put(stat, "Status", "Closed") ELSE stat
CloseStat(stat) ==
    IF stat["WeeksPaid"] >= MAX_WEEKS THEN Put(stat, "Status", "Closed") ELSE stat
MoveToClosedKeepsActive(all_stats, n) ==
    IF n = 0 THEN all_stats
    ELSE Put(all_stats, "ClosedLoans", Get(all_stats, "ClosedLoans", 0) + n)
MoveToClosed(all_stats, n) ==
    IF n = 0 THEN all_stats
    ELSE Put(Put(all_stats, "ActiveLoans", Get(all_stats, "ActiveLoans", 0) - n),
             "ClosedLoans", Get(all_stats, "ClosedLoans", 0) + n)

-----------------------------------------------------------------------------
(* txn_add_new_client.tx *)

(* TotalLoans + 1, ActiveLoans + 1, ClosedLoans as it is *)
CountNewLoanTotalOnly(all_stats) ==
    Put(Put(all_stats, "TotalLoans", Get(all_stats, "TotalLoans", 0) + 1),
        "ClosedLoans", Get(all_stats, "ClosedLoans", 0))
CountNewLoan(all_stats) ==
    Put(Put(Put(all_stats, "TotalLoans", Get(all_stats, "TotalLoans", 0) + 1),
            "ActiveLoans", Get(all_stats, "ActiveLoans", 0) + 1),
        "ClosedLoans", Get(all_stats, "ClosedLoans", 0))

AddClientTx(curr, lend_date, collection_day) ==
    IF curr = None
    THEN Raise("User node does not exist. Refusing to create root automatically.")
    ELSE
    LET all_stats == Get(curr, "AllStats", None)
        client_data == Get(curr, "ClientData", None)
    IN
    IF all_stats = None \/ client_data = None
    THEN Raise("Corrupt user structure")
    ELSE
    LET new_pid == get_next_client_id(client_data)
        stat == [ClientName |-> new_pid, CollectionDay |-> collection_day,
                 LendDate |-> lend_date, Status |-> "Active",
                 TotalAmountPaid |-> 0, WeeksPaid |-> 0]
        new_client == Put(Put(EmptyDict, StatKey(new_pid), stat), "collectionData", EmptyDict)
    IN  Ok(Put(Put(curr, "ClientData", Put(client_data, new_pid, new_client)),
               "AllStats", CountNewLoan(all_stats)))

(* txn_add_entry.tx *)

(* if stat.get("Status") == "Closed": raise *)
ClientNeverClosed(stat) == FALSE
ClientClosed(stat) == Get(stat, "Status", None) = "Closed"

AddEntryTx(curr, client_id, amount, date_str, status) ==
    IF curr = None THEN Raise("User not found")
    ELSE
    LET all_stats == Get(curr, "AllStats", None)
        client_data == Get(curr, "ClientData", None)
    IN
    IF all_stats = None \/ client_data = None THEN Raise("Corrupt user structure")
    ELSE
    LET node == Get(client_data, client_id, None) IN
    IF Falsy(node) THEN Raise("Client not found")
    ELSE
    LET stat == Get(node, StatKey(client_id), None) IN
    IF Falsy(stat) THEN Raise("Client stat missing")
    ELSE
    IF ClientClosed(stat) THEN Raise("Client already closed")
    ELSE
    LET coll == Get(node, "collectionData", EmptyDict)
        next_week == NextWeek(coll)
    IN
    IF ScheduleExhausted(next_week) THEN Raise("Max 20 weeks reached")
    ELSE
    LET coll1 == Put(coll, WeekKey(next_week),
                     [Amount |-> amount, date |-> date_str, entryStatus |-> status])
        paid == status = "paid"
        weeks_paid == Get(stat, "WeeksPaid", 0) + (IF paid THEN 1 ELSE 0)
        total_paid == Get(stat, "TotalAmountPaid", 0) + (IF paid THEN amount ELSE 0)
        stat1 == Put(Put(stat, "WeeksPaid", weeks_paid), "TotalAmountPaid", total_paid)
        stat2 == CloseStat(stat1)
        stats1 == MoveToClosed(all_stats, IF weeks_paid >= MAX_WEEKS THEN 1 ELSE 0)
        node1 == Put(Put(node, "collectionData", coll1), StatKey(client_id), stat2)
    IN  Ok(Put(Put(curr, "ClientData", Put(client_data, client_id, node1)),
               "AllStats", stats1))

-----------------------------------------------------------------------------
(* batch_mark_today.tx: the body of the loop for one client.  today_key is  *)
(* the result of find_today_entry.  Returns the client's node, its receipt *)
(* entry (an empty dict when the client is skipped) and whether the client *)
(* was closed.                                                             *)

SkipClient(node) == [node |-> node, rec |-> EmptyDict, closed |-> FALSE]

SweepUpdated(client_id, node, stat, coll, today_key) ==
    LET entry == Put(Get(coll, today_key, EmptyDict), "entryStatus", "paid")
        coll1 == Put(coll, today_key, entry)
        stat1 == Put(Put(stat, "WeeksPaid", Get(stat, "WeeksPaid", 0) + 1),
                     "TotalAmountPaid", Get(stat, "TotalAmountPaid", 0) + WEEKLY_AMOUNT)
        node1 == Put(Put(node, "collectionData", coll1), StatKey(client_id), CloseStat(stat1))
    IN  [node |-> node1,
         rec |-> Put(EmptyDict, client_id, [action |-> "updated", week |-> WeekNo(today_key)]),
         closed |-> stat1["WeeksPaid"] >= MAX_WEEKS]

SweepCreatedUnchecked(client_id, node, stat, coll, today_date) ==
    LET next_week == NextWeek(coll)
        coll1 == Put(coll, WeekKey(next_week),
                     [Amount |-> WEEKLY_AMOUNT, date |-> today_date, entryStatus |-> "paid"])
        stat1 == Put(Put(stat, "WeeksPaid", Get(stat, "WeeksPaid", 0) + 1),
                     "TotalAmountPaid", Get(stat, "TotalAmountPaid", 0) + WEEKLY_AMOUNT)
        node1 == Put(Put(node, "collectionData", coll1), StatKey(client_id), CloseStat(stat1))
    IN  [node |-> node1,
         rec |-> Put(EmptyDict, client_id, [action |-> "created", week |-> next_week]),
         closed |-> stat1["WeeksPaid"] >= MAX_WEEKS]

SweepCreated(client_id, node, stat, coll, today_date) ==
    LET next_week == NextWeek(coll) IN
    IF ScheduleExhausted(next_week) THEN SkipClient(node)
    ELSE
    LET coll1 == Put(coll, WeekKey(next_week),
                     [Amount |-> WEEKLY_AMOUNT, date |-> today_date, entryStatus |-> "paid"])
        stat1 == Put(Put(stat, "WeeksPaid", Get(stat, "WeeksPaid", 0) + 1),
                     "TotalAmountPaid", Get(stat, "TotalAmountPaid", 0) + WEEKLY_AMOUNT)
        node1 == Put(Put(node, "collectionData", coll1), StatKey(client_id), CloseStat(stat1))
    IN  [node |-> node1,
         rec |-> Put(EmptyDict, client_id, [action |-> "created", week |-> next_week]),
         closed |-> stat1["WeeksPaid"] >= MAX_WEEKS]

SweepClient(client_id, node, today, today_key) ==
    LET stat == Get(node, StatKey(client_id), None) IN
    IF Falsy(stat) THEN SkipClient(node)
    ELSE IF Lower(Get(stat, "Status", "")) # "active" THEN SkipClient(node)
    ELSE IF Get(stat, "CollectionDay", None) # today.weekday THEN SkipClient(node)
    ELSE
    LET coll == OrEmpty(Get(node, "collectionData", EmptyDict)) IN
    IF today_key # NoKey
    THEN IF Lower(Get(Get(coll, today_key, EmptyDict), "entryStatus", "")) = "paid"
         THEN SkipClient(node)
         ELSE SweepUpdated(client_id, node, stat, coll, today_key)
    ELSE SweepCreated(client_id, node, stat, coll, today.date)

(* The results find_today_entry can give for the clients of a document:    *)
(* one key per client.                                                     *)
TodayPicks(curr, today) ==
    LET client_data == OrEmpty(Get(ensure_user_structure(curr), "ClientData", EmptyDict))
        opts(c) == find_today_entry(Get(client_data[c], "collectionData", EmptyDict), today.date)
    IN  {f \in [DOMAIN client_data -> UNION {opts(c) : c \in DOMAIN client_data}] :
            \A c \in DOMAIN client_data : f[c] \in opts(c)}

(* if today_date in batches: return curr *)
NeverSwept(batches, today_date) == FALSE
AlreadySwept(batches, today_date) == today_date \in DOMAIN batches

(* batches[today_date] = batch_record *)
DropReceipt(batches, today_date, batch_record) == batches
SaveReceipt(batches, today_date, batch_record) == Put(batches, today_date, batch_record)

BatchTx(curr, today, pick) ==
    LET c0 == ensure_user_structure(curr)
        client_data == OrEmpty(Get(c0, "ClientData", EmptyDict))
        all_stats == OrEmpty(Get(c0, "AllStats", EmptyDict))
        batches == OrEmpty(Get(c0, "batches", EmptyDict))
    IN
    IF AlreadySwept(batches, today.date) THEN Ok(c0)
    ELSE
    LET r == [c \in DOMAIN client_data |-> SweepClient(c, client_data[c], today, pick[c])]
        touched == {c \in DOMAIN client_data : r[c].rec # EmptyDict}
        batch_record == [c \in touched |-> r[c].rec[c]]
        client_data1 == [c \in DOMAIN client_data |-> r[c].node]
        all_stats1 == MoveToClosed(all_stats, Cardinality({c \in DOMAIN client_data : r[c].closed}))
    IN  Ok(Put(Put(Put(c0, "ClientData", client_data1), "AllStats", all_stats1),
               "batches", SaveReceipt(batches, today.date, batch_record)))

-----------------------------------------------------------------------------
(* undo_last_batch.tx: the body of the loop for one client of the receipt. *)

UndoClient(client_id, info, node) ==
    LET stat == Get(node, StatKey(client_id), None)
        coll == OrEmpty(Get(node, "collectionData", EmptyDict))
        week_key == WeekKey(info.week)
    IN
    IF week_key \notin DOMAIN coll \/ Falsy(stat) THEN [node |-> node, reopened |-> FALSE]
    ELSE
    LET amount == Get(coll[week_key], "Amount", WEEKLY_AMOUNT)
        coll1 == CASE info.action = "created" -> Del(coll, week_key)
                   [] info.action = "updated" ->
                        Put(coll, week_key, Put(coll[week_key], "entryStatus", "pending"))
                   [] OTHER -> coll
        acts == info.action \in {"created", "updated"}
        stat1 == IF acts
                 THEN Put(Put(stat, "WeeksPaid", Max0(Get(stat, "WeeksPaid", 0) - 1)),
                          "TotalAmountPaid", Max0(Get(stat, "TotalAmountPaid", 0) - amount))
                 ELSE stat
        reopen == acts /\ Get(stat, "Status", None) = "Closed"
        stat2 == IF reopen THEN Put(stat1, "Status", "Active") ELSE stat1
    IN  [node |-> Put(Put(node, "collectionData", coll1), StatKey(client_id), stat2),
         reopened |-> reopen]

MoveToActiveKeepsClosed(all_stats, n) ==
    IF n = 0 THEN all_stats
    ELSE Put(all_stats, "ActiveLoans", Get(all_stats, "ActiveLoans", 0) + n)
MoveToActive(all_stats, n) ==
    IF n = 0 THEN all_stats
    ELSE Put(Put(all_stats, "ActiveLoans", Get(all_stats, "ActiveLoans", 0) + n),
             "ClosedLoans", Get(all_stats, "ClosedLoans", 0) - n)

(* del batches[last_date] *)
KeepReceipt(batches, last_date) == batches
RemoveReceipt(batches, last_date) == Del(batches, last_date)

UndoTx(curr) ==
    LET c0 == ensure_user_structure(curr)
        client_data == OrEmpty(Get(c0, "ClientData", EmptyDict))
        all_stats == OrEmpty(Get(c0, "AllStats", EmptyDict))
        batches == OrEmpty(Get(c0, "batches", EmptyDict))
    IN
    IF batches = EmptyDict THEN Ok(c0)
    ELSE
    LET last_date == LexMax(DOMAIN batches)
        record == batches[last_date]
        hit == {c \in DOMAIN record : ~Falsy(Get(client_data, c, None))}
        r == [c \in hit |-> UndoClient(c, record[c], client_data[c])]
        client_data1 == [c \in DOMAIN client_data |-> IF c \in hit THEN r[c].node ELSE client_data[c]]
        all_stats1 == MoveToActive(all_stats, Cardinality({c \in hit : r[c].reopened}))
    IN  Ok(Put(Put(Put(c0, "ClientData", client_data1), "AllStats", all_stats1),
               "batches", RemoveReceipt(batches, last_date)))

-----------------------------------------------------------------------------
(* The store: one document (or None) under Users/<user>.                   *)

UserKeys == {"ua", "u a"}

(* user.replace(" ", "") of batch_mark_today and undo_last_batch *)
RemoveSpaces(user) == IF user = "u a" THEN "ua" ELSE user

(* Inputs of the requests *)
CollectionDays == {"MON", "TUE"}
Amounts == {WEEKLY_AMOUNT, 500}
Statuses == {"paid", "pending"}
EntryDates(t) == {DateStr(DayOfTick(t))}

EmptyLedger == [AllStats |-> ZeroStats, ClientData |-> EmptyDict]

(* Ledgers the server reaches from the empty ledger: addClient, then h     *)
(* postEntry calls of the standard amount, paid, on an earlier date.       *)
RECURSIVE Seeded(_)
Seeded(h) ==
    IF h = 0 THEN AddClientTx(EmptyLedger, OldDate, "MON").val
    ELSE AddEntryTx(Seeded(h - 1), "P1", WEEKLY_AMOUNT, OldDate, "paid").val
SeedWeeks == {18, 19}
SeedDocs == {None, EmptyLedger} \cup {Seeded(h) : h \in SeedWeeks}

NumClients(doc) ==
    IF doc = None \/ "ClientData" \notin DOMAIN doc THEN 0
    ELSE Cardinality(DOMAIN doc["ClientData"])


(* The client ids a request names: the clients of the ledger and one more *)
ClientIds(doc) == {PKey(i) : i \in 1..(NumClients(doc) + 1)}

(* Requests that change a ledger or move the clock are counted, and the    *)
(* model stops issuing them after MaxSteps.                                *)
Spend(spent) == /\ spent => steps < MaxSteps
                /\ steps' = IF spent THEN steps + 1 ELSE steps

Idle == [p \in 1..NumProcs |-> "idle"]
NoJob == [op |-> "none", client |-> "", amount |-> 0, status |-> "", day |-> ""]
NoRes == [err |-> "", val |-> None, pick |-> EmptyDict, tries |-> 0]

OccIdle ==
    /\ pc = Idle
    /\ job = [p \in 1..NumProcs |-> NoJob]
    /\ snap = [p \in 1..NumProcs |-> None]
    /\ res = [p \in 1..NumProcs |-> NoRes]
    /\ log = <<>>
    /\ doc0 = None

Init ==
    /\ db \in {d \in [UserKeys -> SeedDocs] : d["u a"] = None}
    /\ tick = 0
    /\ last = [op |-> "init", user |-> "", client |-> "", status |-> "", err |-> "", follows |-> FALSE]
    /\ preSweep = None
    /\ steps = 0
    /\ OccIdle

(* user_ref.transaction(tx): a transform that raises aborts the            *)
(* transaction and nothing is written; otherwise its result is stored.     *)
CommitOrDelete(path, r) == [db EXCEPT ![path] = r.val]
Commit(path, r) == IF r.err = "" THEN [db EXCEPT ![path] = r.val] ELSE db

(* History of the run, for stating what a request did: last is the request *)
(* just served (follows: it came right after a sweepToday of the same      *)
(* user, nothing in between) and preSweep the user's document as it was    *)
(* before that sweep.                                                      *)
FollowsSweep(path) == last.op = "sweepToday" /\ last.user = path

(* POST /addNewClient *)
AddClient(user, collection_day) ==
    /\ LET r == AddClientTx(db[user], OldDate, collection_day) IN
        /\ Spend(r.err = "")
        /\ db' = Commit(user, r)
        /\ last' = [op |-> "addClient", user |-> user, client |-> "", status |-> "",
                    err |-> r.err, follows |-> FALSE]
    /\ preSweep' = None
    /\ UNCHANGED <<tick, pc, job, snap, res, log, doc0>>

(* POST /addEntry *)
PostEntry(user, client_id, amount, date_str, status) ==
    /\ LET r == AddEntryTx(db[user], client_id, amount, date_str, status) IN
        /\ Spend(r.err = "")
        /\ db' = Commit(user, r)
        /\ last' = [op |-> "postEntry", user |-> user, client |-> client_id,
                    status |-> status, err |-> r.err, follows |-> FALSE]
    /\ preSweep' = None
    /\ UNCHANGED <<tick, pc, job, snap, res, log, doc0>>

(* POST /today/batchMark *)
SweepToday(user) ==
    /\ LET path == RemoveSpaces(user) IN
       \E pick \in TodayPicks(db[path], Today(tick)) :
          LET r == BatchTx(db[path], Today(tick), pick) IN
            /\ db' = Commit(path, r)
            /\ last' = [op |-> "sweepToday", user |-> path, client |-> "", status |-> "",
                        err |-> r.err, follows |-> FollowsSweep(path)]
            /\ preSweep' = db[path]
    /\ UNCHANGED <<tick, steps, pc, job, snap, res, log, doc0>>

(* POST /today/undoLastBatch *)
UndoLastBatch(user) ==
    /\ Spend(TRUE)
    /\ LET path == RemoveSpaces(user)
           r == UndoTx(db[path])
       IN
        /\ db' = Commit(path, r)
        /\ last' = [op |-> "undoLastBatch", user |-> path, client |-> "", status |-> "",
                    err |-> r.err, follows |-> FollowsSweep(path)]
        /\ preSweep' = IF FollowsSweep(path) THEN preSweep ELSE None
    /\ UNCHANGED <<tick, pc, job, snap, res, log, doc0>>

(* datetime.now(IST) moves on to the next day the model reads the clock on *)
Tick ==
    /\ Spend(TRUE)
    /\ tick' = tick + 1
    /\ last' = [op |-> "tick", user |-> "", client |-> "", status |-> "", err |-> "", follows |-> FALSE]
    /\ preSweep' = None
    /\ UNCHANGED <<db, pc, job, snap, res, log, doc0>>

Requests(users) ==
    \/ \E u \in users, d \in CollectionDays : AddClient(u, d)
    \/ \E u \in users, a \in Amounts, s \in Statuses :
         \E c \in ClientIds(db[u]), dt \in EntryDates(tick) : PostEntry(u, c, a, dt, s)
    \/ \E u \in users : SweepToday(u)
    \/ \E u \in users : UndoLastBatch(u)
    \/ Tick

(* One agent working on its own ledger. *)
Next == Requests({"ua"})

Spec == Init /\ [][Next]_vars

-----------------------------------------------------------------------------
(* Concurrent requests on one ledger.  user_ref.transaction(tx) reads the  *)
(* document, calls tx on the value read and writes the result only if the  *)
(* document still holds the value read; otherwise it reads again and calls *)
(* tx again.  A tx that raises ends the transaction without a write.       *)

Procs == 1..NumProcs
OccUser == "ua"

Jobs ==
    {[op |-> "addClient", client |-> "", amount |-> 0, status |-> "", day |-> "MON"],
     [op |-> "postEntry", client |-> "P1", amount |-> WEEKLY_AMOUNT, status |-> "paid", day |-> ""],
     [op |-> "sweepToday", client |-> "", amount |-> 0, status |-> "", day |-> ""],
     [op |-> "undoLastBatch", client |-> "", amount |-> 0, status |-> "", day |-> ""]}

(* The transform a request submits *)
RunJob(j, curr, today, pick) ==
    CASE j.op = "addClient" -> AddClientTx(curr, OldDate, j.day)
      [] j.op = "postEntry" -> AddEntryTx(curr, j.client, j.amount, today.date, j.status)
      [] j.op = "sweepToday" -> BatchTx(curr, today, pick)
      [] OTHER -> UndoTx(curr)
JobPicks(j, curr, today) ==
    IF j.op = "sweepToday" THEN TodayPicks(curr, today) ELSE {EmptyDict}

(* A ledger on which today's sweep has already run *)
SweptLedger ==
    BatchTx(Seeded(18), Today(0), CHOOSE f \in TodayPicks(Seeded(18), Today(0)) : TRUE).val
OccDocs == {EmptyLedger, Seeded(18), Seeded(19), SweptLedger}

InitOCC ==
    /\ db \in {d \in [UserKeys -> OccDocs \cup {None}] : d[OccUser] \in OccDocs /\ d["u a"] = None}
    /\ tick = 0
    /\ last = [op |-> "init", user |-> "", client |-> "", status |-> "", err |-> "", follows |-> FALSE]
    /\ preSweep = None
    /\ steps = 0
    /\ pc = [p \in Procs |-> "read"]
    /\ job \in [Procs -> Jobs]
    /\ snap = [p \in Procs |-> None]
    /\ res = [p \in Procs |-> NoRes]
    /\ log = <<>>
    /\ doc0 = db[OccUser]

(* read the document and call tx on it *)
OccRead(p) ==
    /\ pc[p] = "read"
    /\ snap' = [snap EXCEPT ![p] = db[OccUser]]
    /\ \E pick \in JobPicks(job[p], db[OccUser], Today(tick)) :
          LET r == RunJob(job[p], db[OccUser], Today(tick), pick) IN
            /\ res' = [res EXCEPT ![p] = [err |-> r.err, val |-> r.val, pick |-> pick,
                                          tries |-> res[p].tries + 1]]
            /\ pc' = [pc EXCEPT ![p] = IF r.err = "" THEN "cas" ELSE "failed"]
    /\ UNCHANGED <<db, tick, last, preSweep, steps, job, log, doc0>>

(* the document still holds the value read: the result is written *)
OccCommit(p) ==
    /\ pc[p] = "cas"
    /\ db[OccUser] = snap[p]
    /\ db' = [db EXCEPT ![OccUser] = res[p].val]
    /\ log' = Append(log, p)
    /\ pc' = [pc EXCEPT ![p] = "done"]
    /\ UNCHANGED <<tick, last, preSweep, steps, job, snap, res, doc0>>

(* another request wrote in between: read again *)
OccRetry(p) ==
    /\ pc[p] = "cas"
    /\ db[OccUser] # snap[p]
    /\ pc' = [pc EXCEPT ![p] = "read"]
    /\ UNCHANGED <<db, tick, last, preSweep, steps, job, snap, res, log, doc0>>

NextOCC == \E p \in Procs : OccRead(p) \/ OccCommit(p) \/ OccRetry(p)

SpecOCC == InitOCC /\ [][NextOCC]_vars

-----------------------------------------------------------------------------
(* Documents as the server may find them under Users/<user>: absent,       *)
(* lacking AllStats or ClientData, holding a client without its Stat       *)
(* record or holding a Closed client, next to another user's document;     *)
(* either user may call.                                                   *)

NoAllStats == [ClientData |-> EmptyDict]
NoClientData == [AllStats |-> ZeroStats]
NoStatLedger ==
    [AllStats |-> [TotalLoans |-> 1, ActiveLoans |-> 1, ClosedLoans |-> 0],
     ClientData |-> [P1 |-> [collectionData |-> EmptyDict]]]
ClosedLedger == AddEntryTx(Seeded(19), "P1", WEEKLY_AMOUNT, OldDate, "paid").val
ShapeDocs == {None, NoAllStats, NoClientData, NoStatLedger, ClosedLedger}

InitShapes ==
    /\ db \in {d \in [UserKeys -> ShapeDocs \cup {EmptyLedger}] :
                 d["ua"] \in ShapeDocs /\ d["u a"] = EmptyLedger}
    /\ tick = 0
    /\ last = [op |-> "init", user |-> "", client |-> "", status |-> "", err |-> "", follows |-> FALSE]
    /\ preSweep = None
    /\ steps = 0
    /\ OccIdle

NextShapes == Requests(UserKeys)

SpecShapes == InitShapes /\ [][NextShapes]_vars

-----------------------------------------------------------------------------
(* Reading a ledger *)

HasLedger(doc) == doc # None /\ {"AllStats", "ClientData"} \subseteq DOMAIN doc
ClientsOf(doc) == IF HasLedger(doc) THEN DOMAIN doc["ClientData"] ELSE {}
StatOf(doc, c) == doc["ClientData"][c][StatKey(c)]
CollOf(doc, c) == doc["ClientData"][c]["collectionData"]
BatchesOf(doc) == IF doc = None THEN EmptyDict ELSE Get(doc, "batches", EmptyDict)
PaidKeys(doc, c) == {k \in DOMAIN CollOf(doc, c) : CollOf(doc, c)[k]["entryStatus"] = "paid"}
TodayDate == DateStr(DayOfTick(tick))

-----------------------------------------------------------------------------
(* C1: in every state reached from the empty ledger (or from a ledger the  *)
(* server builds from it), TotalLoans = ActiveLoans + ClosedLoans.         *)
C1_TotalIsActivePlusClosed ==
    \A u \in UserKeys :
        HasLedger(db[u]) =>
            db[u]["AllStats"]["TotalLoans"] =
                db[u]["AllStats"]["ActiveLoans"] + db[u]["AllStats"]["ClosedLoans"]

(* C1 witness: right after an undoLastBatch that reverted the sweep before *)
(* it, where the ledger before the sweep had a client one week short of    *)
(* the schedule: the sweep closed it and the undo reopened it, the         *)
(* counters moving both ways.                                              *)
C1_Witness ==
    /\ last.op = "undoLastBatch"
    /\ last.follows
    /\ HasLedger(db["ua"])
    /\ HasLedger(preSweep)
    /\ TodayDate \notin DOMAIN BatchesOf(preSweep)
    /\ preSweep["AllStats"]["ClosedLoans"] = 0
    /\ \E c \in ClientsOf(preSweep) :
          /\ StatOf(preSweep, c)["WeeksPaid"] = 19
          /\ StatOf(preSweep, c)["CollectionDay"] = Today(tick).weekday
          /\ StatOf(db["ua"], c)["Status"] = "Active"
    /\ db["ua"]["AllStats"]["ActiveLoans"] = preSweep["AllStats"]["ActiveLoans"]
    /\ db["ua"]["AllStats"]["ClosedLoans"] = 0

(* C2 (as claimed): for every client the keys of collectionData are        *)
(* exactly week1..weekK, K the number of entries.                          *)
C2_DenseWeeks ==
    \A u \in UserKeys : \A c \in ClientsOf(db[u]) :
        DOMAIN CollOf(db[u], c) = {WeekKey(n) : n \in 1..Cardinality(DOMAIN CollOf(db[u], c))}

(* C3: every client has 0 <= WeeksPaid <= 20, no week key above week20,    *)
(* and at most 20 entries.                                                 *)
C3_WeeksWithinSchedule ==
    \A u \in UserKeys : \A c \in ClientsOf(db[u]) :
        /\ StatOf(db[u], c)["WeeksPaid"] \in 0..20
        /\ \A k \in DOMAIN CollOf(db[u], c) : WeekNo(k) \in 1..20
        /\ Cardinality(DOMAIN CollOf(db[u], c)) <= 20

(* C3 witness: a client with an entry at week20 and 20 weeks paid, after a *)
(* request that tried to go further.                                       *)
C3_Witness ==
    \E c \in ClientsOf(db["ua"]) :
        /\ WeekKey(20) \in DOMAIN CollOf(db["ua"], c)
        /\ StatOf(db["ua"], c)["WeeksPaid"] = 20
        /\ last.op = "sweepToday"
        /\ TodayDate \in DOMAIN BatchesOf(db["ua"])
        /\ c \notin DOMAIN BatchesOf(db["ua"])[TodayDate]

(* C4: a sweepToday that comes right after a sweepToday of the same user   *)
(* on the same date leaves the document exactly as the first left it.      *)
C4_SweepIdempotent ==
    (last.op = "sweepToday" /\ last.follows) => db[last.user] = preSweep

(* C4 witness: the second of two sweeps in a row, on a day on which no     *)
(* client was due, so that the first wrote an empty receipt.               *)
C4_Witness ==
    /\ last.op = "sweepToday"
    /\ last.follows
    /\ TodayDate \in DOMAIN BatchesOf(db["ua"])
    /\ BatchesOf(db["ua"])[TodayDate] = EmptyDict

(* C4 witness, second case: the second of two sweeps in a row on a day on  *)
(* which the first credited a client.                                      *)
C4_WitnessCredited ==
    /\ last.op = "sweepToday"
    /\ last.follows
    /\ TodayDate \in DOMAIN BatchesOf(db["ua"])
    /\ BatchesOf(db["ua"])[TodayDate] # EmptyDict

(* C5 (as claimed): an undoLastBatch right after a sweepToday on a date    *)
(* that had no receipt restores AllStats, every client's stat and          *)
(* collectionData to their values before the sweep, and removes the date's *)
(* receipt.                                                                *)
C5_SweepUndoRoundTrip ==
    (/\ last.op = "undoLastBatch"
     /\ last.follows
     /\ HasLedger(preSweep)
     /\ TodayDate \notin DOMAIN BatchesOf(preSweep))
    => LET doc == db[last.user] IN
        /\ doc["AllStats"] = preSweep["AllStats"]
        /\ doc["ClientData"] = preSweep["ClientData"]
        /\ TodayDate \notin DOMAIN BatchesOf(doc)

(* C8 (as claimed): a postEntry with status "paid" for an Active client    *)
(* with WeeksPaid = 19 and fewer than 20 entries sets WeeksPaid = 20 and   *)
(* Status = Closed, moves one loan from ActiveLoans to ClosedLoans and     *)
(* leaves TotalLoans; a successful postEntry that leaves WeeksPaid below   *)
(* 20 changes neither Status nor AllStats.                                 *)
C8_ClosureAtBoundary ==
    [][last'.op = "postEntry" /\ HasLedger(db[last'.user])
          /\ last'.client \in ClientsOf(db[last'.user])
       => LET u == last'.user
              c == last'.client
              stat == StatOf(db[u], c)
              stats == db[u]["AllStats"]
          IN  /\ (/\ last'.status = "paid"
                  /\ stat["Status"] = "Active"
                  /\ stat["WeeksPaid"] = 19
                  /\ Cardinality(DOMAIN CollOf(db[u], c)) < 20)
                 => /\ StatOf(db'[u], c)["WeeksPaid"] = 20
                    /\ StatOf(db'[u], c)["Status"] = "Closed"
                    /\ db'[u]["AllStats"]["ActiveLoans"] = stats["ActiveLoans"] - 1
                    /\ db'[u]["AllStats"]["ClosedLoans"] = stats["ClosedLoans"] + 1
                    /\ db'[u]["AllStats"]["TotalLoans"] = stats["TotalLoans"]
              /\ (last'.err = "" /\ StatOf(db'[u], c)["WeeksPaid"] < 20)
                 => /\ StatOf(db'[u], c)["Status"] = stat["Status"]
                    /\ db'[u]["AllStats"] = stats]_vars

(* What the 21st attempt meets: the client of the request just served has  *)
(* 20 entries, all paid.                                                   *)
TwentyPaid(doc, c) ==
    /\ c \in ClientsOf(doc)
    /\ Cardinality(DOMAIN CollOf(doc, c)) = 20
    /\ PaidKeys(doc, c) = DOMAIN CollOf(doc, c)

(* C9 (as claimed): after a client's 20th paid entry a further postEntry   *)
(* fails with the capacity error and leaves the ledger unchanged; any      *)
(* postEntry whose next week number would exceed 20 fails and leaves the   *)
(* ledger unchanged, and no week21 entry ever exists.                      *)
C9_TwentyFirstIsCapacityError ==
    [][last'.op = "postEntry" /\ last'.client \in ClientsOf(db[last'.user])
       => LET u == last'.user
              c == last'.client
          IN  /\ TwentyPaid(db[u], c)
                 => last'.err = "Max 20 weeks reached" /\ db' = db
              /\ NextWeek(CollOf(db[u], c)) > 20
                 => /\ last'.err # "" /\ db' = db
                    /\ WeekKey(21) \notin DOMAIN CollOf(db'[u], c)]_vars

(* C9 (amended): the 21st attempt fails with "Client already closed" when  *)
(* the client is Closed and with "Max 20 weeks reached" when it is not;    *)
(* either way, and for any postEntry whose next week number would exceed   *)
(* 20, the ledger is unchanged and no week21 entry exists.                 *)
C9_ExhaustedPostFails ==
    [][last'.op = "postEntry" /\ last'.client \in ClientsOf(db[last'.user])
       => LET u == last'.user
              c == last'.client
          IN  NextWeek(CollOf(db[u], c)) > 20
                 => /\ last'.err = IF StatOf(db[u], c)["Status"] = "Closed"
                                   THEN "Client already closed"
                                   ELSE "Max 20 weeks reached"
                    /\ db' = db
                    /\ WeekKey(21) \notin DOMAIN CollOf(db'[u], c)]_vars

(* C9 witness: a postEntry was just refused for a client whose 20 entries  *)
(* are all paid.                                                           *)
C9_Witness ==
    /\ last.op = "postEntry"
    /\ last.err = "Client already closed"
    /\ TwentyPaid(db[last.user], last.client)

(* C9 witness, second case: a postEntry was just refused with the capacity *)
(* error, for an Active client that has a week20 entry.                    *)
C9_WitnessCapacity ==
    /\ last.op = "postEntry"
    /\ last.err = "Max 20 weeks reached"
    /\ last.client \in ClientsOf(db[last.user])
    /\ StatOf(db[last.user], last.client)["Status"] = "Active"

(* The preconditions of the two strict transforms, read off the document. *)
MisShaped(doc) == doc = None \/ "AllStats" \notin DOMAIN doc \/ "ClientData" \notin DOMAIN doc
Unpostable(doc, c) ==
    \/ MisShaped(doc)
    \/ c \notin DOMAIN doc["ClientData"]
    \/ StatKey(c) \notin DOMAIN doc["ClientData"][c]
    \/ doc["ClientData"][c][StatKey(c)]["Status"] = "Closed"

(* C10: an addClient on an absent document or one lacking AllStats or      *)
(* ClientData, and a postEntry on an absent or mis-shaped document, for an *)
(* unknown client, a client without its Stat or a Closed client, end in an *)
(* error and leave every user's document as it was.                        *)
C10_PreconditionFailureWritesNothing ==
    [][/\ (last'.op = "addClient" /\ MisShaped(db[last'.user]))
          => last'.err # "" /\ db' = db
       /\ (last'.op = "postEntry" /\ Unpostable(db[last'.user], last'.client))
          => last'.err # "" /\ db' = db]_vars

(* C10 witness: a postEntry was just refused because the client has no     *)
(* Stat record, while the other user holds a ledger.                       *)
C10_Witness ==
    /\ last.op = "postEntry"
    /\ last.err = "Client stat missing"
    /\ \E u \in UserKeys : u # last.user /\ HasLedger(db[u])

(* C10 witness, second case: an addClient was just refused on a document   *)
(* that lacks ClientData.                                                  *)
C10_WitnessCorrupt ==
    /\ last.op = "addClient"
    /\ last.err = "Corrupt user structure"
    /\ db[last.user] = NoClientData

-----------------------------------------------------------------------------
(* Concurrent requests *)

AllEnded == \A p \in Procs : pc[p] \in {"done", "failed"}
EntriesDated(doc, c, date) == {k \in DOMAIN CollOf(doc, c) : CollOf(doc, c)[k]["date"] = date}

(* C6: when the concurrent requests are all sweepToday calls of one date,  *)
(* each client's WeeksPaid rises by at most 1 in total, at most one entry  *)
(* dated that day is added to it, and once a sweep has been written        *)
(* batches holds the date's receipt and no other new key, and exactly the  *)
(* clients of a receipt written by these sweeps have been credited, once.  *)
C6_OncePerDayUnderConcurrency ==
    (\A p \in Procs : job[p].op = "sweepToday")
    => /\ \A c \in ClientsOf(doc0) :
            /\ c \in ClientsOf(db[OccUser])
            /\ StatOf(db[OccUser], c)["WeeksPaid"] <= StatOf(doc0, c)["WeeksPaid"] + 1
            /\ Cardinality(EntriesDated(db[OccUser], c, TodayDate))
                 <= Cardinality(EntriesDated(doc0, c, TodayDate)) + 1
       /\ log # <<>>
            => /\ TodayDate \in DOMAIN BatchesOf(db[OccUser])
               /\ DOMAIN BatchesOf(db[OccUser]) = DOMAIN BatchesOf(doc0) \cup {TodayDate}
               /\ \A c \in ClientsOf(doc0) :
                    StatOf(db[OccUser], c)["WeeksPaid"] =
                      IF /\ TodayDate \notin DOMAIN BatchesOf(doc0)
                         /\ c \in DOMAIN BatchesOf(db[OccUser])[TodayDate]
                      THEN StatOf(doc0, c)["WeeksPaid"] + 1
                      ELSE StatOf(doc0, c)["WeeksPaid"]

(* C6 witness: all the requests were sweeps of a date that had no receipt, *)
(* all have ended, one of them had to read again, and a client was         *)
(* credited.                                                               *)
C6_Witness ==
    /\ \A p \in Procs : job[p].op = "sweepToday" /\ pc[p] = "done"
    /\ \E p \in Procs : res[p].tries >= 2
    /\ TodayDate \notin DOMAIN BatchesOf(doc0)
    /\ BatchesOf(db[OccUser])[TodayDate] # EmptyDict

(* The committed transforms applied one at a time, in the order of their   *)
(* writes, to the document the run started from.                           *)
RECURSIVE Replay(_, _)
Replay(doc, order) ==
    IF order = <<>> THEN doc
    ELSE Replay(RunJob(job[Head(order)], doc, Today(tick), res[Head(order)].pick).val,
                Tail(order))

(* C7: the document always equals the committed transforms applied one at  *)
(* a time in some order (the order of their writes), and no committed      *)
(* update is lost: when all requests are addClient calls and have ended,   *)
(* there is one new client id per request and TotalLoans and ActiveLoans   *)
(* have risen by the number of requests.                                   *)
C7_Serializable ==
    /\ db[OccUser] = Replay(doc0, log)
    /\ (AllEnded /\ \A p \in Procs : job[p].op = "addClient")
       => /\ Cardinality(ClientsOf(db[OccUser])) = Cardinality(ClientsOf(doc0)) + NumProcs
          /\ ClientsOf(doc0) \subseteq ClientsOf(db[OccUser])
          /\ db[OccUser]["AllStats"]["TotalLoans"] = doc0["AllStats"]["TotalLoans"] + NumProcs
          /\ db[OccUser]["AllStats"]["ActiveLoans"] = doc0["AllStats"]["ActiveLoans"] + NumProcs

(* C7 witness: different kinds of request ran against each other, all      *)
(* wrote, and one of them had to read again.                               *)
C7_Witness ==
    /\ \A p \in Procs : pc[p] = "done"
    /\ \E p \in Procs : res[p].tries >= 2
    /\ \E p, q \in Procs : job[p].op = "addClient" /\ job[q].op = "postEntry"

(* C7 witness, second case: the addClient calls that ran against each      *)
(* other have all written, one after reading again.                        *)
C7_WitnessAddClient ==
    /\ \A p \in Procs : pc[p] = "done" /\ job[p].op = "addClient"
    /\ \E p \in Procs : res[p].tries >= 2

-----------------------------------------------------------------------------
(* Status over time *)

ClosedIn(doc, c) ==
    /\ c \in ClientsOf(doc)
    /\ StatKey(c) \in DOMAIN doc["ClientData"][c]
    /\ StatOf(doc, c)["Status"] = "Closed"
ActiveIn(doc, c) ==
    /\ c \in ClientsOf(doc)
    /\ StatKey(c) \in DOMAIN doc["ClientData"][c]
    /\ StatOf(doc, c)["Status"] = "Active"

(* C11 (as claimed): a client goes from Closed to Active in no step other  *)
(* than an undoLastBatch, and an undoLastBatch does not reopen a client    *)
(* that a postEntry closed: when the request just served was the           *)
(* successful paid postEntry that left its client Closed, an undoLastBatch *)
(* that comes next leaves that client Closed.                              *)
C11_ReopenedOnlyByUndoOfClosingSweep ==
    [][/\ \A u \in UserKeys : \A c \in ClientsOf(db[u]) :
            (ClosedIn(db[u], c) /\ ActiveIn(db'[u], c))
            => (last'.op = "undoLastBatch" /\ last'.user = u)
       /\ (/\ last.op = "postEntry" /\ last.err = "" /\ last.status = "paid"
           /\ ClosedIn(db[last.user], last.client)
           /\ last'.op = "undoLastBatch" /\ last'.user = last.user)
          => ClosedIn(db'[last.user], last.client)]_vars

-----------------------------------------------------------------------------
(* Undo and the receipts *)

(* The calendar day a date string names, among the days the clock reads *)
DayOfDate(date) == CHOOSE d \in 0..(7 * (MaxSteps + 1)) : DateStr(d) = date

(* C12: an undoLastBatch on a ledger with non-empty batches removes one    *)
(* receipt, the one whose date is later than every remaining one, leaves   *)
(* the other receipts as they were, adds or removes no client and changes  *)
(* only clients that the removed receipt names.                            *)
C12_UndoPopsLatestReceipt ==
    [][(/\ last'.op = "undoLastBatch"
        /\ db[last'.user] # None
        /\ BatchesOf(db[last'.user]) # EmptyDict)
       => LET u == last'.user
              batches == BatchesOf(db[u])
              batches1 == BatchesOf(db'[u])
          IN  \E r \in DOMAIN batches :
                /\ DOMAIN batches1 = DOMAIN batches \ {r}
                /\ \A k \in DOMAIN batches1 :
                     /\ DayOfDate(k) < DayOfDate(r)
                     /\ batches1[k] = batches[k]
                /\ DOMAIN db'[u]["ClientData"] = DOMAIN db[u]["ClientData"]
                /\ \A c \in DOMAIN db[u]["ClientData"] :
                     c \notin DOMAIN batches[r]
                     => db'[u]["ClientData"][c] = db[u]["ClientData"][c]]_vars

(* C12 witness: an undoLastBatch has just reverted today's sweep, which    *)
(* had credited a client, on a ledger that held the receipt of an earlier  *)
(* day; that earlier receipt is the one left.                              *)
C12_Witness ==
    /\ last.op = "undoLastBatch"
    /\ last.follows
    /\ HasLedger(preSweep)
    /\ TodayDate \notin DOMAIN BatchesOf(preSweep)
    /\ BatchesOf(preSweep) # EmptyDict
    /\ BatchesOf(db[last.user]) = BatchesOf(preSweep)
    /\ \E c \in ClientsOf(preSweep) :
          /\ ActiveIn(preSweep, c)
          /\ StatOf(preSweep, c)["CollectionDay"] = Today(tick).weekday
          /\ TodayKeys(CollOf(preSweep, c), TodayDate) = {}
          /\ NextWeek(CollOf(preSweep, c)) <= MAX_WEEKS

(* C13 (as claimed): an undoLastBatch on a user whose document is absent   *)
(* or has no batches, or an empty batches map, leaves the stored document  *)
(* as it was, and a document that did not exist comes to exist in a        *)
(* sweepToday step only.                                                   *)
C13_UndoWithoutReceiptsIsNoOp ==
    [][/\ (last'.op = "undoLastBatch" /\ BatchesOf(db[last'.user]) = EmptyDict)
          => db' = db
       /\ \A u \in UserKeys :
            (db[u] = None /\ db'[u] # None) => last'.op = "sweepToday"]_vars

-----------------------------------------------------------------------------
(* One user's request and the other users' documents *)

OthersUntouched(user) == \A b \in UserKeys \ {user} : db'[b] = db[b]

(* C14 (as claimed): a request made with user identifier A leaves the      *)
(* document of every other identifier B as it was, also when B differs     *)
(* from A by space characters only, whether the request succeeds or fails. *)
C14_UserIsolation ==
    [][\A user \in UserKeys :
         (\/ \E d \in CollectionDays : AddClient(user, d)
          \/ \E a \in Amounts, s \in Statuses :
               \E c \in ClientIds(db[user]), dt \in EntryDates(tick) : PostEntry(user, c, a, dt, s)
          \/ SweepToday(user)
          \/ UndoLastBatch(user))
         => OthersUntouched(user)]_vars

-----------------------------------------------------------------------------
(* Client ids *)

(* C15: the client ids of a ledger are exactly P1..Pk, k the number of     *)
(* clients, and the id the scan of addClient would allocate is the id the  *)
(* preview computes as the greatest number + 1 (P1 when there is no        *)
(* client).                                                                *)
C15_IdAllocatorsAgree ==
    \A u \in UserKeys :
        HasLedger(db[u]) =>
            /\ ClientsOf(db[u]) = {PKey(i) : i \in 1..Cardinality(ClientsOf(db[u]))}
            /\ get_next_client_id(db[u]["ClientData"]) = get_next_client_id_route(db[u])
            /\ ClientsOf(db[u]) = {} => get_next_client_id_route(db[u]) = "P1"

(* C15 witness: an addClient has just given a ledger its third client. *)
C15_Witness ==
    /\ last.op = "addClient"
    /\ last.err = ""
    /\ Cardinality(ClientsOf(db[last.user])) >= 3
    /\ get_next_client_id_route(db[last.user]) = PKey(Cardinality(ClientsOf(db[last.user])) + 1)

-----------------------------------------------------------------------------
(* What addClient does *)

(* C16: a successful addClient on a ledger with AllStats and ClientData    *)
(* adds one key to ClientData, whose record is Active with WeeksPaid 0,    *)
(* TotalAmountPaid 0, the given CollectionDay and LendDate and an empty    *)
(* collectionData; TotalLoans and ActiveLoans rise by 1; ClosedLoans, the  *)
(* other clients and batches are as before; on the empty ledger the key is *)
(* P1 and AllStats becomes {1, 1, 0}.                                      *)
C16_AddClientEffect ==
    [][\A u \in UserKeys, d \in CollectionDays :
         (AddClient(u, d) /\ last'.err = "" /\ HasLedger(db[u]))
         => LET old == db[u]
                new == db'[u]
                added == ClientsOf(new) \ ClientsOf(old)
            IN  /\ Cardinality(added) = 1
                /\ ClientsOf(old) \subseteq ClientsOf(new)
                /\ \A c \in added :
                     /\ StatOf(new, c)["Status"] = "Active"
                     /\ StatOf(new, c)["WeeksPaid"] = 0
                     /\ StatOf(new, c)["TotalAmountPaid"] = 0
                     /\ StatOf(new, c)["CollectionDay"] = d
                     /\ StatOf(new, c)["LendDate"] = OldDate
                     /\ CollOf(new, c) = EmptyDict
                     /\ ClientsOf(old) = {} => c = "P1"
                /\ new["AllStats"]["TotalLoans"] = old["AllStats"]["TotalLoans"] + 1
                /\ new["AllStats"]["ActiveLoans"] = old["AllStats"]["ActiveLoans"] + 1
                /\ new["AllStats"]["ClosedLoans"] = old["AllStats"]["ClosedLoans"]
                /\ \A c \in ClientsOf(old) : new["ClientData"][c] = old["ClientData"][c]
                /\ BatchesOf(new) = BatchesOf(old)
                /\ ("batches" \in DOMAIN new) = ("batches" \in DOMAIN old)
                /\ old = EmptyLedger
                   => new["AllStats"] = [TotalLoans |-> 1, ActiveLoans |-> 1, ClosedLoans |-> 0]]_vars

(* C16 witness: an addClient has just succeeded on a ledger that holds a   *)
(* receipt and another client with entries.                                *)
C16_Witness ==
    /\ last.op = "addClient"
    /\ last.err = ""
    /\ BatchesOf(db[last.user]) # EmptyDict
    /\ \E c \in ClientsOf(db[last.user]) : CollOf(db[last.user], c) # EmptyDict
    /\ \E c \in ClientsOf(db[last.user]) :
          CollOf(db[last.user], c) = EmptyDict /\ StatOf(db[last.user], c)["WeeksPaid"] = 0

-----------------------------------------------------------------------------
(* What a sweep does to each client.  After a sweepToday step, preSweep is  *)
(* the document the sweep read and db[last.user] the one it wrote.         *)

SweptNow ==
    /\ last.op = "sweepToday"
    /\ HasLedger(preSweep)
    /\ TodayDate \notin DOMAIN BatchesOf(preSweep)
Receipt == BatchesOf(db[last.user])[TodayDate]
DueToday(doc, c) ==
    ActiveIn(doc, c) /\ StatOf(doc, c)["CollectionDay"] = Today(tick).weekday
ClosedCount(doc) == Cardinality({c \in ClientsOf(doc) : ClosedIn(doc, c)})

(* The client after a credit of amount: one more week paid, the amount     *)
(* added, closed at 20 weeks.                                              *)
Credited(old, new, c, amount) ==
    /\ StatOf(new, c)["WeeksPaid"] = StatOf(old, c)["WeeksPaid"] + 1
    /\ StatOf(new, c)["TotalAmountPaid"] = StatOf(old, c)["TotalAmountPaid"] + amount
    /\ StatOf(new, c)["Status"] =
         IF StatOf(new, c)["WeeksPaid"] >= 20 THEN "Closed" ELSE "Active"

(* C17 (as claimed): after a sweep on a date that had no receipt, for each *)
(* Active client collected today with at most one entry dated today: (a)   *)
(* a paid entry of today: client unchanged, not in the receipt; (b) a      *)
(* pending entry of today: it is paid now, WeeksPaid + 1, TotalAmountPaid  *)
(* + that entry's Amount, receipt {updated, its week}; (c) no entry of     *)
(* today and next week <= 20: a paid entry of the standard Amount dated    *)
(* today at week max+1, WeeksPaid + 1, TotalAmountPaid + Amount, receipt   *)
(* {created, max+1}; a client reaching 20 weeks is closed and the counters *)
(* moved.  Closed clients and clients of another day are unchanged and not *)
(* in the receipt.                                                         *)
C17_SweepPerClientEffect ==
    SweptNow =>
      LET old == preSweep
          new == db[last.user]
      IN
      /\ TodayDate \in DOMAIN BatchesOf(new)
      /\ ClientsOf(new) = ClientsOf(old)
      /\ new["AllStats"]["ClosedLoans"] - old["AllStats"]["ClosedLoans"]
           = ClosedCount(new) - ClosedCount(old)
      /\ new["AllStats"]["ActiveLoans"] - old["AllStats"]["ActiveLoans"]
           = ClosedCount(old) - ClosedCount(new)
      /\ \A c \in ClientsOf(old) :
           LET coll == CollOf(old, c)
               todays == TodayKeys(coll, TodayDate)
           IN
           IF ~DueToday(old, c)
           THEN new["ClientData"][c] = old["ClientData"][c] /\ c \notin DOMAIN Receipt
           ELSE IF Cardinality(todays) > 1 THEN TRUE
           ELSE IF todays # {}
           THEN LET k == CHOOSE x \in todays : TRUE IN
                IF coll[k]["entryStatus"] = "paid"
                THEN new["ClientData"][c] = old["ClientData"][c] /\ c \notin DOMAIN Receipt
                ELSE /\ CollOf(new, c) = [coll EXCEPT ![k]["entryStatus"] = "paid"]
                     /\ Credited(old, new, c, coll[k]["Amount"])
                     /\ c \in DOMAIN Receipt
                     /\ Receipt[c] = [action |-> "updated", week |-> WeekNo(k)]
           ELSE IF NextWeek(coll) <= 20
           THEN /\ CollOf(new, c) =
                     Put(coll, WeekKey(NextWeek(coll)),
                         [Amount |-> 600, date |-> TodayDate, entryStatus |-> "paid"])
                /\ Credited(old, new, c, 600)
                /\ c \in DOMAIN Receipt
                /\ Receipt[c] = [action |-> "created", week |-> NextWeek(coll)]
           ELSE TRUE

-----------------------------------------------------------------------------
(* A client whose schedule is used up *)

(* An Active client collected today that has an entry at week20 and none   *)
(* dated today.                                                            *)
ExhaustedDue(doc, c) ==
    /\ DueToday(doc, c)
    /\ WeekKey(20) \in DOMAIN CollOf(doc, c)
    /\ TodayKeys(CollOf(doc, c), TodayDate) = {}
(* A client collected today that the sweep has a week to create for. *)
CreatableDue(doc, c) ==
    /\ DueToday(doc, c)
    /\ NextWeek(CollOf(doc, c)) <= 20
    /\ TodayKeys(CollOf(doc, c), TodayDate) = {}

(* C18: a sweepToday on a date without receipt, on a ledger in which an    *)
(* eligible client has an entry at week20 and none dated today, succeeds,  *)
(* leaves that client as it was and out of the receipt, credits every      *)
(* other eligible client that has a week left and writes the date's        *)
(* receipt; a postEntry for that client fails and writes nothing.          *)
C18_CapacityAsymmetry ==
    [][/\ (/\ last'.op = "sweepToday"
           /\ HasLedger(db[last'.user])
           /\ TodayDate \notin DOMAIN BatchesOf(db[last'.user]))
          => LET old == db[last'.user]
                 new == db'[last'.user]
             IN  (\E c \in ClientsOf(old) : ExhaustedDue(old, c))
                 => /\ last'.err = ""
                    /\ TodayDate \in DOMAIN BatchesOf(new)
                    /\ \A c \in ClientsOf(old) :
                         /\ ExhaustedDue(old, c)
                            => /\ new["ClientData"][c] = old["ClientData"][c]
                               /\ c \notin DOMAIN BatchesOf(new)[TodayDate]
                         /\ CreatableDue(old, c)
                            => /\ c \in DOMAIN BatchesOf(new)[TodayDate]
                               /\ StatOf(new, c)["WeeksPaid"] = StatOf(old, c)["WeeksPaid"] + 1
                               /\ WeekKey(NextWeek(CollOf(old, c))) \in DOMAIN CollOf(new, c)
       /\ (/\ last'.op = "postEntry"
           /\ HasLedger(db[last'.user])
           /\ last'.client \in ClientsOf(db[last'.user])
           /\ ExhaustedDue(db[last'.user], last'.client))
          => last'.err = "Max 20 weeks reached" /\ db' = db]_vars

(* C18 witness: a sweep has just skipped an eligible client that has an    *)
(* entry at week20 and none dated today, and credited another client in    *)
(* the same call.                                                          *)
C18_Witness ==
    /\ SweptNow
    /\ last.err = ""
    /\ \E c \in ClientsOf(preSweep) :
          ExhaustedDue(preSweep, c) /\ c \notin DOMAIN Receipt
    /\ \E c \in ClientsOf(preSweep) :
          CreatableDue(preSweep, c) /\ c \in DOMAIN Receipt

-----------------------------------------------------------------------------
(* Receipts and the entries they name *)

(* C19: every item (client, {action, week}) of every receipt names an      *)
(* existing client that has its Stat record and an entry at that week,     *)
(* which is paid and dated with the receipt's date.                        *)
C19_ReceiptsNeverDangle ==
    \A u \in UserKeys :
        HasLedger(db[u]) =>
            \A date \in DOMAIN BatchesOf(db[u]) :
                \A c \in DOMAIN BatchesOf(db[u])[date] :
                    LET info == BatchesOf(db[u])[date][c] IN
                    /\ c \in ClientsOf(db[u])
                    /\ StatKey(c) \in DOMAIN db[u]["ClientData"][c]
                    /\ info.action \in {"created", "updated"}
                    /\ WeekKey(info.week) \in DOMAIN CollOf(db[u], c)
                    /\ CollOf(db[u], c)[WeekKey(info.week)]["entryStatus"] = "paid"
                    /\ CollOf(db[u], c)[WeekKey(info.week)]["date"] = date

(* C19 witness: a ledger holds the receipts of two days, one naming an     *)
(* entry the sweep created and one naming an entry it flipped to paid.     *)
C19_Witness ==
    \E d1, d2 \in DOMAIN BatchesOf(db["ua"]) :
        /\ d1 # d2
        /\ \E c \in DOMAIN BatchesOf(db["ua"])[d1] :
              BatchesOf(db["ua"])[d1][c].action = "created"
        /\ \E c \in DOMAIN BatchesOf(db["ua"])[d2] :
              BatchesOf(db["ua"])[d2][c].action = "updated"

-----------------------------------------------------------------------------
(* The counters and the clients *)

(* GET /dashboard: the recount of ClientData, one loan per client that has *)
(* its Stat record, active or closed by its Status in lower case.          *)
get_dashboard(data) ==
    LET client_data == data["ClientData"]
        counted == {c \in DOMAIN client_data : ~Falsy(Get(client_data[c], StatKey(c), None))}
        status(c) == Lower(Get(client_data[c][StatKey(c)], "Status", ""))
    IN  [TotalLoans |-> Cardinality(counted),
         ActiveLoans |-> Cardinality({c \in counted : status(c) = "active"}),
         ClosedLoans |-> Cardinality({c \in counted : status(c) = "closed"})]

(* C20: TotalLoans is the number of client records, ActiveLoans the number *)
(* of Active clients and ClosedLoans the number of Closed clients, so the  *)
(* dashboard's recount agrees with AllStats, and no counter is negative.   *)
C20_CountersMatchClients ==
    \A u \in UserKeys :
        HasLedger(db[u]) =>
            LET stats == db[u]["AllStats"] IN
            /\ stats["TotalLoans"] = Cardinality(ClientsOf(db[u]))
            /\ stats["ActiveLoans"] = Cardinality({c \in ClientsOf(db[u]) : ActiveIn(db[u], c)})
            /\ stats["ClosedLoans"] = Cardinality({c \in ClientsOf(db[u]) : ClosedIn(db[u], c)})
            /\ get_dashboard(db[u]) = [k \in {"TotalLoans", "ActiveLoans", "ClosedLoans"} |-> stats[k]]
            /\ \A k \in {"TotalLoans", "ActiveLoans", "ClosedLoans"} : stats[k] >= 0

(* C20 witness: right after an undoLastBatch that reverted the sweep       *)
(* before it; the sweep had closed a client at its 20th week and the undo  *)
(* reopened it, on a ledger that holds another client as well.             *)
C20_Witness ==
    /\ last.op = "undoLastBatch"
    /\ last.follows
    /\ HasLedger(preSweep)
    /\ TodayDate \notin DOMAIN BatchesOf(preSweep)
    /\ Cardinality(ClientsOf(db[last.user])) >= 2
    /\ \E c \in ClientsOf(preSweep) :
          /\ CreatableDue(preSweep, c)
          /\ StatOf(preSweep, c)["WeeksPaid"] = 19
          /\ ActiveIn(db[last.user], c)
    /\ db[last.user]["AllStats"]["ActiveLoans"] >= 2

-----------------------------------------------------------------------------
(* A client's Stat record and its entries *)

(* C21: a client is Closed exactly when its WeeksPaid is 20. *)
C21_ClosedIffTwentyWeeks ==
    \A u \in UserKeys :
        HasLedger(db[u]) =>
            \A c \in ClientsOf(db[u]) :
                /\ StatOf(db[u], c)["Status"] \in {"Active", "Closed"}
                /\ (StatOf(db[u], c)["Status"] = "Closed") <=> (StatOf(db[u], c)["WeeksPaid"] = 20)

(* C21 witness: right after an undoLastBatch that took back the sweep's    *)
(* week19 credit from a client that a postEntry at week20 had closed: the  *)
(* client is Active again with 19 weeks paid.                              *)
C21_Witness ==
    /\ last.op = "undoLastBatch"
    /\ \E c \in ClientsOf(db["ua"]) :
          /\ WeekKey(20) \in DOMAIN CollOf(db["ua"], c)
          /\ WeekKey(19) \notin DOMAIN CollOf(db["ua"], c)
          /\ StatOf(db["ua"], c)["WeeksPaid"] = 19
          /\ StatOf(db["ua"], c)["Status"] = "Active"
          /\ PaidKeys(db["ua"], c) = DOMAIN CollOf(db["ua"], c)

(* C22: a client's WeeksPaid is the number of its entries whose            *)
(* entryStatus is "paid"; consequently every client named in a receipt has *)
(* WeeksPaid >= 1, and the undo's max(0, WeeksPaid - 1) is WeeksPaid - 1.  *)
C22_WeeksPaidCountsPaidEntries ==
    \A u \in UserKeys :
        HasLedger(db[u]) =>
            /\ \A c \in ClientsOf(db[u]) :
                 StatOf(db[u], c)["WeeksPaid"] = Cardinality(PaidKeys(db[u], c))
            /\ \A date \in DOMAIN BatchesOf(db[u]) :
                 \A c \in DOMAIN BatchesOf(db[u])[date] :
                    /\ c \in ClientsOf(db[u])
                    /\ StatOf(db[u], c)["WeeksPaid"] >= 1

(* C22 witness: right after an undoLastBatch, a client holds a pending     *)
(* entry dated today next to its paid ones, and the receipt is gone: the   *)
(* sweep had flipped that entry to paid and the undo set it back.          *)
C22_Witness ==
    /\ last.op = "undoLastBatch"
    /\ last.follows
    /\ HasLedger(preSweep)
    /\ TodayDate \notin DOMAIN BatchesOf(preSweep)
    /\ \E c \in ClientsOf(preSweep) :
          /\ DueToday(preSweep, c)
          /\ \E k \in TodayKeys(CollOf(preSweep, c), TodayDate) :
               /\ CollOf(preSweep, c)[k]["entryStatus"] = "pending"
               /\ CollOf(db[last.user], c)[k]["entryStatus"] = "pending"
          /\ PaidKeys(db[last.user], c) # {}
          /\ StatOf(db[last.user], c)["WeeksPaid"] = StatOf(preSweep, c)["WeeksPaid"]

(* The sum of Amount over the entries of coll whose keys are in keys *)
RECURSIVE SumAmounts(_, _)
SumAmounts(coll, keys) ==
    IF keys = {} THEN 0
    ELSE LET k == CHOOSE x \in keys : TRUE
         IN  coll[k]["Amount"] + SumAmounts(coll, keys \ {k})

(* C23 (as claimed): a client's TotalAmountPaid is the sum of Amount over  *)
(* its entries whose entryStatus is "paid".                                *)
C23_TotalIsSumOfPaidAmounts ==
    \A u \in UserKeys :
        HasLedger(db[u]) =>
            \A c \in ClientsOf(db[u]) :
                StatOf(db[u], c)["TotalAmountPaid"] =
                    SumAmounts(CollOf(db[u], c), PaidKeys(db[u], c))

====
